---- MODULE Spec2Model ----
(***************************************************************************)
(* pymodbus3.mei_message: the Read Device Identification request and       *)
(* response (function code 0x2b, MEI type 0x0e): their wire codec, the     *)
(* request's execute step and the response's RTU frame size calculation.   *)
(*                                                                         *)
(* A bytes object is a sequence of integers in 0..ByteMax (1-based here,   *)
(* 0-based in the source).  A dict is the sequence of its <<key, value>>   *)
(* items in insertion order, keys unique.  A call that can raise returns a *)
(* record with a `raised` flag; the only exceptions of this module are     *)
(* struct.error (pack, unpack) and IndexError (indexing).                  *)
(***************************************************************************)
EXTENDS Integers, Sequences, FiniteSets, TLC

VARIABLES
    request,    \* the ReadDeviceInformationRequest object of the server
    result,     \* what the last execute returned
    response,   \* the ReadDeviceInformationResponse object that is encoded
    wire,       \* what the last Response.encode returned
    handle,     \* the ReadDeviceInformationResponse object that decodes
    last,       \* the last call: its name, whether it raised, its data argument
    frame,      \* RTU transport: the complete frame being received
    avail,      \* RTU transport: how many bytes of it have arrived
    estimate,   \* RTU transport: what the last calculate_rtu_frame_size returned
    previous    \* RTU transport: the call before it, on a shorter prefix

vars == <<request, result, response, wire, handle, last,
          frame, avail, estimate, previous>>

codec_vars == <<request, result, response, wire, handle, last>>
rtu_vars == <<frame, avail, estimate, previous>>

----------------------------------------------------------------------------
(* Bounds of the model *)

\* the largest number of objects a provider's mapping holds
MaxObjects == 2
\* the largest number of trailing bytes the link loses from a packet
MaxDrop == 3

----------------------------------------------------------------------------
(* Program constants *)

\* struct format 'B': an unsigned byte, 0 <= number <= 255
ByteMax == 255
\* function_code = 0x2b
function_code == 43
\* sub_function_code = 0x0e
sub_function_code == 14
\* self.conformity = 0x83
Conformity == 131
\* size = 8: the header the frame size calculation skips
HeaderSkip == 8
\* pymodbus3.constants.DeviceInformation.Basic
Basic == 0
\* pymodbus3.constants.MoreData.Nothing
Nothing == 0

----------------------------------------------------------------------------
(* Python primitives the module uses *)

Min(a, b) == IF a < b THEN a ELSE b

\* data[lo:hi] for 0 <= lo: both ends are clamped to the length, never raises
Slice(data, lo, hi) == SubSeq(data, Min(lo, Len(data)) + 1, Min(hi, Len(data)))

\* data[i] (0-based): IndexError when i is not below the length
getitem(data, i) ==
    IF i < Len(data)
    THEN [raised |-> FALSE, value |-> data[i + 1]]
    ELSE [raised |-> TRUE, value |-> 0]

\* pack with a plausible fault: the value is masked to a byte instead of refused
pack_masked(values) ==
    [raised |-> FALSE, value |-> [i \in 1..Len(values) |-> values[i] % (ByteMax + 1)]]

\* struct.pack('>B...B', *values): struct.error unless every value is a byte
pack(values) ==
    IF \A i \in 1..Len(values) : values[i] \in 0..ByteMax
    THEN [raised |-> FALSE, value |-> values]
    ELSE [raised |-> TRUE, value |-> <<>>]

\* unpack with a plausible fault: missing bytes read as zero, extra bytes are ignored
unpack_padded(n, data) ==
    [raised |-> FALSE,
     value |-> [i \in 1..n |-> IF i <= Len(data) THEN data[i] ELSE 0]]

\* struct.unpack('>B...B', data) with n B's: struct.error unless len(data) = n
unpack(n, data) ==
    IF Len(data) = n
    THEN [raised |-> FALSE, value |-> data]
    ELSE [raised |-> TRUE, value |-> <<>>]

\* x or default, for a number x: 0 (like None) is falsy
or_default(x, default) == IF x = 0 THEN default ELSE x

\* dict_setitem with a plausible fault: a new key goes to the front of the dict
dict_setitem_front(d, k, v) ==
    IF \E i \in 1..Len(d) : d[i][1] = k
    THEN [i \in 1..Len(d) |-> IF d[i][1] = k THEN <<k, v>> ELSE d[i]]
    ELSE <<<<k, v>>>> \o d

\* d[k] = v: an existing key keeps its place, a new key goes last
dict_setitem(d, k, v) ==
    IF \E i \in 1..Len(d) : d[i][1] = k
    THEN [i \in 1..Len(d) |-> IF d[i][1] = k THEN <<k, v>> ELSE d[i]]
    ELSE Append(d, <<k, v>>)

----------------------------------------------------------------------------
(* ReadDeviceInformationRequest *)

\* ReadDeviceInformationRequest(read_code, object_id)
Request_init(read_code, object_id) ==
    [sub_function_code |-> sub_function_code,
     read_code |-> or_default(read_code, Basic),
     object_id |-> object_id]

Request_encode(self) ==
    pack(<<self.sub_function_code, self.read_code, self.object_id>>)

\* returns whether it raised and the object after the call
Request_decode(self, data) ==
    LET params == unpack(3, data)
    IN  IF params.raised
        THEN [raised |-> TRUE, self |-> self]
        ELSE [raised |-> FALSE,
              self |-> [sub_function_code |-> params.value[1],
                        read_code |-> params.value[2],
                        object_id |-> params.value[3]]]

----------------------------------------------------------------------------
(* ReadDeviceInformationResponse *)

\* ReadDeviceInformationResponse(read_code, information); `information or {}`
\* of an empty mapping is an empty mapping
Response_init(read_code, information) ==
    [sub_function_code |-> sub_function_code,
     read_code |-> or_default(read_code, Basic),
     conformity |-> Conformity,
     more_follows |-> Nothing,
     next_object_id |-> 0,
     number_of_objects |-> Len(information),
     information |-> information]

RECURSIVE encode_items(_, _)
\* the loop of encode over information.items(), from the packet so far
encode_items(packet, items) ==
    IF Len(items) = 0
    THEN [raised |-> FALSE, value |-> packet]
    ELSE LET object_id == items[1][1]
             data == items[1][2]
             head == pack(<<object_id, Len(data)>>)
         IN  IF head.raised
             THEN [raised |-> TRUE, value |-> <<>>]
             ELSE encode_items(packet \o head.value \o data, Tail(items))

Response_encode(self) ==
    LET packet == pack(<<self.sub_function_code, self.read_code,
                         self.conformity, self.more_follows,
                         self.next_object_id, self.number_of_objects>>)
    IN  IF packet.raised
        THEN [raised |-> TRUE, value |-> <<>>]
        ELSE encode_items(packet.value, self.information)

RECURSIVE decode_objects(_, _, _)
\* the loop of decode, from offset count; self is the object so far
decode_objects(self, data, count) ==
    IF ~(count < Len(data))
    THEN [raised |-> FALSE, self |-> self]
    ELSE LET head == unpack(2, Slice(data, count, count + 2))
         IN  IF head.raised
             THEN [raised |-> TRUE, self |-> self]
             ELSE LET object_id == head.value[1]
                      object_length == head.value[2]
                      next == count + object_length + 2
                  IN  decode_objects(
                          [self EXCEPT !.information =
                              dict_setitem(@, object_id,
                                           Slice(data, next - object_length, next))],
                          data, next)

\* returns whether it raised and the object after the call
Response_decode(self, data) ==
    LET params == unpack(6, Slice(data, 0, 6))
    IN  IF params.raised
        THEN [raised |-> TRUE, self |-> self]
        ELSE decode_objects(
                 [sub_function_code |-> params.value[1],
                  read_code |-> params.value[2],
                  conformity |-> params.value[3],
                  more_follows |-> params.value[4],
                  next_object_id |-> params.value[5],
                  number_of_objects |-> params.value[6],
                  information |-> <<>>],
                 data, 6)

\* execute with a plausible fault: the upper edges are excluded
Request_execute_exclusive(self, information) ==
    IF ~(0 <= self.object_id /\ self.object_id < ByteMax)
    THEN [kind |-> "exception", exception_code |-> "IllegalValue",
          response |-> Response_init(0, <<>>)]
    ELSE IF ~(0 <= self.read_code /\ self.read_code < 4)
    THEN [kind |-> "exception", exception_code |-> "IllegalValue",
          response |-> Response_init(0, <<>>)]
    ELSE [kind |-> "response", exception_code |-> "",
          response |-> Response_init(self.read_code, information)]

\* execute; information is what DeviceInformationFactory.get returns for
\* (read_code, object_id).  An exception return carries no response: its
\* response field is a placeholder nothing reads.
Request_execute(self, information) ==
    IF ~(0 <= self.object_id /\ self.object_id <= ByteMax)
    THEN [kind |-> "exception", exception_code |-> "IllegalValue",
          response |-> Response_init(0, <<>>)]
    ELSE IF ~(0 <= self.read_code /\ self.read_code <= 4)
    THEN [kind |-> "exception", exception_code |-> "IllegalValue",
          response |-> Response_init(0, <<>>)]
    ELSE [kind |-> "response", exception_code |-> "",
          response |-> Response_init(self.read_code, information)]

----------------------------------------------------------------------------
(* calculate_rtu_frame_size *)

RECURSIVE frame_objects_bare(_, _, _)
\* the loop with a plausible fault: the early return forgets the checksum
frame_objects_bare(data, size, count) ==
    IF count > 0
    THEN IF Len(data) < size + 2
         THEN [raised |-> FALSE, value |-> size]
         ELSE LET head == unpack(2, Slice(data, size, size + 2))
              IN  IF head.raised
                  THEN [raised |-> TRUE, value |-> 0]
                  ELSE frame_objects_bare(data, size + head.value[2] + 2, count - 1)
    ELSE [raised |-> FALSE, value |-> size + 2]

RECURSIVE frame_objects_payload_only(_, _, _)
\* the loop with a plausible fault: an object's id and length bytes are not
\* counted
frame_objects_payload_only(data, size, count) ==
    IF count > 0
    THEN IF Len(data) < size + 2
         THEN [raised |-> FALSE, value |-> size + 2]
         ELSE LET head == unpack(2, Slice(data, size, size + 2))
              IN  IF head.raised
                  THEN [raised |-> TRUE, value |-> 0]
                  ELSE frame_objects_payload_only(data, size + head.value[2], count - 1)
    ELSE [raised |-> FALSE, value |-> size + 2]

RECURSIVE frame_objects(_, _, _)
\* the while loop of calculate_rtu_frame_size
frame_objects(data, size, count) ==
    IF count > 0
    THEN IF Len(data) < size + 2
         THEN [raised |-> FALSE, value |-> size + 2]
         ELSE LET head == unpack(2, Slice(data, size, size + 2))
              IN  IF head.raised
                  THEN [raised |-> TRUE, value |-> 0]
                  ELSE frame_objects(data, size + head.value[2] + 2, count - 1)
    ELSE [raised |-> FALSE, value |-> size + 2]

\* calculate_rtu_frame_size with a plausible fault: the count is read from a
\* buffer of 7 bytes
calculate_rtu_frame_size_short(data) ==
    LET size == HeaderSkip
    IN  IF Len(data) <= 6
        THEN [raised |-> FALSE, value |-> size + 2]
        ELSE LET count == getitem(data, 7)
             IN  IF count.raised
                 THEN [raised |-> TRUE, value |-> 0]
                 ELSE frame_objects(data, size, count.value)

\* calculate_rtu_frame_size with a plausible fault: the count is read one
\* byte early
calculate_rtu_frame_size_early(data) ==
    LET size == HeaderSkip
    IN  IF Len(data) <= 7
        THEN [raised |-> FALSE, value |-> size + 2]
        ELSE LET count == getitem(data, 6)
             IN  IF count.raised
                 THEN [raised |-> TRUE, value |-> 0]
                 ELSE frame_objects(data, size, count.value)

calculate_rtu_frame_size(data) ==
    LET size == HeaderSkip
    IN  IF Len(data) <= 7
        THEN [raised |-> FALSE, value |-> size + 2]
        ELSE LET count == getitem(data, 7)
             IN  IF count.raised
                 THEN [raised |-> TRUE, value |-> 0]
                 ELSE frame_objects(data, size, count.value)

----------------------------------------------------------------------------
(* The inputs the model draws *)

\* object ids a provider uses
ObjectIds == {0, 1, ByteMax}
\* payload lengths a provider returns: empty, the longest a length
\* byte can state, and one byte more
PayloadLens == {0, ByteMax, ByteMax + 1}
\* payload lengths of the frames an RTU transport receives
FrameLens == {0, 2}
\* a payload of n bytes, "BABA..."
Payload(n) == [i \in 1..n |-> 65 + (i % 2)]

\* the dicts of at most n items with keys in ids and payload lengths in lens,
\* in every insertion order
Mappings(ids, lens, n) ==
    LET Items == {<<k, Payload(l)>> : k \in ids, l \in lens}
    IN  UNION {{m \in [1..c -> Items] :
                   \A i, j \in 1..c : i # j => m[i][1] # m[j][1]} : c \in 0..n}

ProviderMappings == Mappings(ObjectIds, PayloadLens, MaxObjects)
FrameMappings == Mappings(ObjectIds, FrameLens, MaxObjects)

\* read codes and object ids a caller constructs a request with
ReadCodeArgs == {-1, 0, 4, 5}
ObjectIdArgs == {-1, 0, ByteMax, ByteMax + 1}
\* read codes and object ids of the requests a client puts on the link
ClientReadCodes == {4, 5}
ClientObjectIds == {ByteMax}
\* the attributes a caller assigns after construction, and the value it assigns
AttrNames == {"more_follows", "next_object_id", "number_of_objects"}
AttrValues == {ByteMax}
\* object counts a frame's header states besides the true one
CountValues == {0, ByteMax}
\* checksum trailers of the RTU framer
Trailers == {<<0, 0>>, <<ByteMax, 2>>}

NoCall == [op |-> "none", raised |-> FALSE, data |-> <<>>]
NoResult == [kind |-> "none", exception_code |-> "", information |-> <<>>]
NoWire == [state |-> "none", bytes |-> <<>>]
NoEstimate == [called |-> FALSE, len |-> 0, raised |-> FALSE, value |-> 0]

CodecInit ==
    /\ request = Request_init(0, 0)
    /\ result = NoResult
    /\ response = Response_init(0, <<>>)
    /\ wire = NoWire
    /\ handle = Response_init(0, <<>>)
    /\ last = NoCall

RtuInit ==
    /\ frame = <<>>
    /\ avail = 0
    /\ estimate = NoEstimate
    /\ previous = NoEstimate

Init == CodecInit /\ RtuInit

----------------------------------------------------------------------------
(* The codec: one transaction after the other *)

\* no response is on its way: none was built, or its packet was delivered,
\* or encoding it failed
Idle ==
    \/ result.kind # "response"
    \/ last.op = "Response.decode"
    \/ wire.state = "raised"

\* a caller constructs a request
NewRequest(read_code, object_id) ==
    /\ Idle
    /\ request' = Request_init(read_code, object_id)
    /\ result' = NoResult
    /\ response' = Response_init(0, <<>>)
    /\ wire' = NoWire
    /\ handle' = Response_init(0, <<>>)
    /\ last' = [op |-> "Request", raised |-> FALSE, data |-> <<>>]
    /\ UNCHANGED rtu_vars

\* the transport hands the request object the first n bytes of what a client
\* sent followed by one more byte
DecodeRequest(read_code, object_id, n) ==
    LET sent == Request_encode(Request_init(read_code, object_id))
        data == Slice(sent.value \o <<0>>, 0, n)
        out == Request_decode(request, data)
    IN  /\ Idle
        /\ ~sent.raised
        /\ request' = out.self
        /\ result' = NoResult
        /\ response' = Response_init(0, <<>>)
        /\ wire' = NoWire
        /\ handle' = Response_init(0, <<>>)
        /\ last' = [op |-> "Request.decode", raised |-> out.raised, data |-> data]
        /\ UNCHANGED rtu_vars

\* the dispatcher executes the request, once; the provider returns information
Execute(information) ==
    LET out == Request_execute(request, information)
    IN  /\ result.kind = "none"
        /\ result' = [kind |-> out.kind, exception_code |-> out.exception_code,
                      information |-> information]
        /\ response' = IF out.kind = "response" THEN out.response
                       ELSE Response_init(0, <<>>)
        /\ wire' = NoWire
        /\ handle' = Response_init(0, <<>>)
        /\ last' = [op |-> "Request.execute", raised |-> FALSE, data |-> <<>>]
        /\ UNCHANGED <<request, rtu_vars>>

\* a caller assigns an attribute of the response
SetAttr(name, v) ==
    /\ result.kind = "response"
    /\ response[name] # v
    /\ response' = [response EXCEPT ![name] = v]
    /\ wire' = NoWire
    /\ handle' = Response_init(0, <<>>)
    /\ last' = [op |-> "setattr", raised |-> FALSE, data |-> <<>>]
    /\ UNCHANGED <<request, result, rtu_vars>>

\* the transport encodes the response
Encode ==
    LET out == Response_encode(response)
    IN  /\ result.kind = "response"
        /\ wire' = [state |-> IF out.raised THEN "raised" ELSE "returned",
                    bytes |-> out.value]
        /\ handle' = Response_init(0, <<>>)
        /\ last' = [op |-> "Response.encode", raised |-> out.raised, data |-> <<>>]
        /\ UNCHANGED <<request, result, response, rtu_vars>>

\* the receiving side decodes the packet, less the trailing bytes the link lost
Deliver(drop) ==
    LET data == Slice(wire.bytes, 0, Len(wire.bytes) - drop)
        out == Response_decode(handle, data)
    IN  /\ wire.state = "returned"
        /\ drop <= Len(wire.bytes)
        /\ handle' = out.self
        /\ last' = [op |-> "Response.decode", raised |-> out.raised, data |-> data]
        /\ UNCHANGED <<request, result, response, wire, rtu_vars>>

Next ==
    \/ \E read_code \in ReadCodeArgs, object_id \in ObjectIdArgs :
           NewRequest(read_code, object_id)
    \/ \E read_code \in ClientReadCodes, object_id \in ClientObjectIds, n \in 0..4 :
           DecodeRequest(read_code, object_id, n)
    \/ \E information \in ProviderMappings : Execute(information)
    \/ \E name \in AttrNames, v \in AttrValues : SetAttr(name, v)
    \/ Encode
    \/ \E drop \in 0..MaxDrop : Deliver(drop)

Spec == Init /\ [][Next]_vars

----------------------------------------------------------------------------
(* The RTU transport: a frame arrives in pieces, and the transport asks for *)
(* the frame's size each time                                               *)

\* the frame that carries a response: the unit address and the function
\* code, the encoded response, the checksum
Frame(record, trailer) ==
    <<1, function_code>> \o Response_encode(record).value \o trailer

\* a frame is on the link; `response` is the record it carries
InitEst ==
    /\ \E information \in FrameMappings, trailer \in Trailers :
           \E count \in CountValues \cup {Len(information)} :
               /\ response = [Response_init(1, information)
                                 EXCEPT !.number_of_objects = count]
               /\ frame = Frame(response, trailer)
    /\ request = Request_init(0, 0)
    /\ result = NoResult
    /\ wire = NoWire
    /\ handle = Response_init(0, <<>>)
    /\ last = NoCall
    /\ avail = 0
    /\ estimate = NoEstimate
    /\ previous = NoEstimate

\* k more bytes arrive and the transport calls calculate_rtu_frame_size on
\* all it holds
Receive(k) ==
    LET data == Slice(frame, 0, avail + k)
        out == calculate_rtu_frame_size(data)
    IN  /\ avail + k <= Len(frame)
        /\ avail' = avail + k
        /\ previous' = estimate
        /\ estimate' = [called |-> TRUE, len |-> avail + k,
                        raised |-> out.raised, value |-> out.value]
        /\ UNCHANGED <<codec_vars, frame>>

NextEst == \E k \in 0..Len(frame) : Receive(k)

SpecEst == InitEst /\ [][NextEst]_vars

----------------------------------------------------------------------------
(* Properties of the codec, under Spec *)

IsByte(v) == v \in 0..ByteMax

\* a valid response record: every header field and object id a byte, every
\* payload of at most ByteMax bytes, number_of_objects the number of entries
ValidRecord(r) ==
    /\ IsByte(r.sub_function_code) /\ IsByte(r.read_code) /\ IsByte(r.conformity)
    /\ IsByte(r.more_follows) /\ IsByte(r.next_object_id)
    /\ r.number_of_objects = Len(r.information)
    /\ \A i \in 1..Len(r.information) :
           /\ IsByte(r.information[i][1])
           /\ Len(r.information[i][2]) <= ByteMax

\* the last call decoded the whole packet that encode returned for `response`
DecodedWholePacket ==
    /\ last.op = "Response.decode"
    /\ wire.state = "returned"
    /\ last.data = wire.bytes

\* C1: decoding the bytes encode returns for a valid response record yields
\* an equal record: the same header fields and the same information entries
\* in the same order.
C1_RoundTrip ==
    (DecodedWholePacket /\ ValidRecord(response))
        => (~last.raised /\ handle = response)

C1_Witness ==
    /\ DecodedWholePacket
    /\ ValidRecord(response)
    /\ handle = response
    /\ Len(response.information) = 2
    /\ response.information[1][1] > response.information[2][1]
    /\ Len(response.information[1][2]) = ByteMax
    /\ response.more_follows = ByteMax

\* C2: the number_of_objects byte (the 6th) of the packet encode returns is
\* the number of entries of information, whatever the record's
\* number_of_objects field holds.
C2_CountRecomputed ==
    (last.op = "Response.encode" /\ ~last.raised)
        => wire.bytes[6] = Len(response.information)

RECURSIVE Overruns(_, _)
\* some object of data, read from offset count on, states a length that goes
\* past the end of data, or has no room for its id and length bytes
Overruns(data, count) ==
    IF count >= Len(data)
    THEN FALSE
    ELSE IF count + 2 > Len(data)
    THEN TRUE
    ELSE \/ count + 2 + data[count + 2] > Len(data)
         \/ Overruns(data, count + 2 + data[count + 2])

\* C3: decode of a buffer in which an object's stated length goes past the
\* end of the buffer fails; no payload shorter than its stated length is
\* stored.
C3_TruncatedObjectFails ==
    (last.op = "Response.decode" /\ Len(last.data) >= 6 /\ Overruns(last.data, 6))
        => last.raised

\* C4: execute returns the IllegalValue exception, and no response, exactly
\* when object_id is outside 0x00..0xff or read_code is outside 0x00..0x04;
\* otherwise it returns a response with the request's read_code and the
\* provider's mapping.
C4_ExecuteValidation ==
    last.op = "Request.execute" =>
        IF request.object_id \in 0..ByteMax /\ request.read_code \in 0..4
        THEN /\ result.kind = "response"
             /\ response.read_code = request.read_code
             /\ response.information = result.information
        ELSE /\ result.kind = "exception"
             /\ result.exception_code = "IllegalValue"
             /\ response = Response_init(0, <<>>)

C4_Witness ==
    /\ last.op = "Request.execute"
    /\ request.read_code = 4
    /\ request.object_id = ByteMax
    /\ result.kind = "response"
    /\ response.read_code = 4
    /\ Len(response.information) = 2

\* C8: encode of a record with a payload longer than ByteMax bytes fails and
\* returns no bytes: no packet with a cut payload or a wrapped length byte,
\* and no part of a packet.
C8_LongPayloadFails ==
    (/\ last.op = "Response.encode"
     /\ \E i \in 1..Len(response.information) :
            Len(response.information[i][2]) > ByteMax)
        => (last.raised /\ wire.state = "raised" /\ wire.bytes = <<>>)

C8_Witness ==
    /\ last.op = "Response.encode"
    /\ Len(response.information) = 2
    /\ Len(response.information[1][2]) = ByteMax
    /\ Len(response.information[2][2]) = ByteMax + 1
    /\ last.raised

\* C9: a decode given fewer bytes than its fixed layout needs (3 for the
\* request, 6 for the response) fails and leaves the object's fields as they
\* were.
C9_ShortDecodeFails ==
    [][/\ (last'.op = "Request.decode" /\ Len(last'.data) < 3)
           => (last'.raised /\ request' = request)
       /\ (last'.op = "Response.decode" /\ Len(last'.data) < 6)
           => (last'.raised /\ handle' = handle)]_vars

C9_Witness ==
    /\ last.op = "Response.decode"
    /\ Len(last.data) < 6
    /\ last.raised
    /\ handle # Response_init(0, <<>>)
    /\ request.read_code = 4

----------------------------------------------------------------------------
(* Properties of the frame size calculation, under SpecEst *)

\* the frame's header states as many objects as follow it
WellFormed == response.number_of_objects = Len(response.information)

RECURSIVE ObjectBytes(_)
\* the bytes the objects of a mapping take on the wire
ObjectBytes(items) ==
    IF Len(items) = 0 THEN 0
    ELSE 2 + Len(items[1][2]) + ObjectBytes(Tail(items))

\* C5: over growing prefixes of one frame the estimates never decrease.
C5_EstimatesNeverDecrease ==
    (previous.called /\ estimate.called)
        => /\ previous.len <= estimate.len
           /\ ~previous.raised /\ ~estimate.raised
           /\ previous.value <= estimate.value

C5_Witness ==
    /\ previous.called /\ estimate.called
    /\ WellFormed
    /\ Len(response.information) = 2
    /\ previous.len = 9
    /\ estimate.len = Len(frame)
    /\ previous.value < estimate.value

\* C6: given all the bytes of a complete frame whose header states the number
\* of objects that follow, the estimate is the frame's length:
\* 8 + the sum over the objects of (2 + object_length) + 2.
C6_CompleteFrameLength ==
    (estimate.called /\ estimate.len = Len(frame) /\ WellFormed)
        => /\ ~estimate.raised
           /\ estimate.value = 8 + ObjectBytes(response.information) + 2
           /\ estimate.value = Len(frame)

C6_Witness ==
    /\ estimate.called /\ estimate.len = Len(frame) /\ WellFormed
    /\ Len(response.information) = 2
    /\ Len(response.information[1][2]) = 2
    /\ estimate.value = 18

\* C7: calculate_rtu_frame_size never raises, whatever the buffer: empty,
\* shorter than 8 bytes, or stating more objects than it holds; on fewer than
\* 8 bytes it returns 10.
C7_NeverRaises ==
    estimate.called
        => /\ ~estimate.raised
           /\ (estimate.len < 8 => estimate.value = 10)

C7_Witness ==
    /\ estimate.called
    /\ ~estimate.raised
    /\ response.number_of_objects > Len(response.information)
    /\ estimate.len = Len(frame) - 1

\* C10: on every strict prefix of a complete frame whose header states the
\* number of objects that follow, the estimate is greater than the length
\* of the prefix.
C10_PrefixNeverComplete ==
    (estimate.called /\ WellFormed /\ estimate.len < Len(frame))
        => (~estimate.raised /\ estimate.value > estimate.len)

C10_Witness ==
    /\ estimate.called /\ WellFormed
    /\ Len(response.information) = 2
    /\ estimate.len = Len(frame) - 1
    /\ estimate.value = Len(frame)

====
